---- MODULE Spec2Model ----
(***************************************************************************)
(* Model of the two scripts of should-it-be-automated:                     *)
(*   fix_borders.py  (StyleTokenRewriter): for each of three fixed paths,  *)
(*                   read, apply ten re.sub rules in order, write, print.  *)
(*   fix_tests.py    (FieldInserter): add_org_pressure and its __main__.   *)
(* Texts are TLA+ strings; Len, SubSeq and \o act on them character by     *)
(* character, so every substitution is computed on the characters.         *)
(***************************************************************************)
EXTENDS Integers, Sequences, FiniteSets, TLC

VARIABLES
    fs,         \* fix_borders: path -> text of the file, or NoFile
    orig,       \* the file system when the script was first started
    fault,      \* fix_borders: path -> the I/O call that raises for it
    filepath,   \* fix_borders: index of the loop variable in files_to_fix
    pc,         \* fix_borders: the statement about to run
    content,    \* fix_borders: the local variable content
    rule,       \* fix_borders: index of the next (old, new) of replacements
    stdout,     \* fix_borders: the lines printed so far
    input,      \* repeated runs: the text the first run started from
    first,      \* repeated runs: the text the first run produced
    run,        \* repeated runs: 1 in the first run, 2 in the second
    argv,       \* fix_tests: sys.argv
    tfs,        \* fix_tests: path -> text of the file, or NoFile
    tpc,        \* fix_tests: the statement about to run
    file_path,  \* fix_tests: the variable file_path
    tcontent,   \* fix_tests: the variable content
    new_content,\* fix_tests: the variable new_content
    tstdout,    \* fix_tests: the lines printed so far
    status,     \* fix_tests: the exit status of the process, -1 while it runs
    opened      \* fix_tests: the paths open() was called with, in order

bvars == <<fs, orig, fault, filepath, pc, content, rule, stdout>>
pvars == <<input, first, run>>
tvars == <<argv, tfs, tpc, file_path, tcontent, new_content, tstdout, status,
           opened>>
vars == <<bvars, pvars, tvars>>

\* A path of the file system: a file holding text, or nothing.
File(t) == [exists |-> TRUE, text |-> t]
NoFile == [exists |-> FALSE, text |-> ""]
\* A local variable not assigned yet.
NoText == ""

----------------------------------------------------------------------------
(* Text primitives.                                                         *)

\* old occurs in s at position i.
MatchesAt(old, s, i) ==
    /\ i >= 1
    /\ i + Len(old) - 1 <= Len(s)
    /\ SubSeq(s, i, i + Len(old) - 1) = old

\* The positions at which old occurs in s.
Occurrences(old, s) == {i \in 1..Len(s) : MatchesAt(old, s, i)}

Contains(s, old) == Occurrences(old, s) # {}

Count(s, old) == Cardinality(Occurrences(old, s))

\* Where the scan of re.sub finds old next in s, at or after i; 0 if nowhere.
NextMatch(old, s, i) ==
    LET at == {j \in i..Len(s) : MatchesAt(old, s, j)}
    IN  IF at = {} THEN 0 ELSE CHOOSE j \in at : \A k \in at : j <= k

\* The start positions re.sub(old, ..) replaces in s, scanning from i:
\* leftmost first, the scan resuming after each match.
RECURSIVE MatchStarts(_, _, _)
MatchStarts(old, s, i) ==
    LET j == NextMatch(old, s, i)
    IN  IF j = 0 THEN {} ELSE {j} \cup MatchStarts(old, s, j + Len(old))

\* re.sub(old, new, s) for a pattern of literal characters, from position i:
\* every non-overlapping occurrence, leftmost first, becomes new.
RECURSIVE SubFrom(_, _, _, _)
SubFrom(old, new, s, i) ==
    LET j == NextMatch(old, s, i)
    IN  IF j = 0 THEN SubSeq(s, i, Len(s))
        ELSE SubSeq(s, i, j - 1) \o new \o SubFrom(old, new, s, j + Len(old))

\* re.sub called with count=1: only the first occurrence is replaced.
re_sub_first_only(old, new, s) ==
    LET j == NextMatch(old, s, 1)
    IN  IF j = 0 THEN s
        ELSE SubSeq(s, 1, j - 1) \o new \o SubSeq(s, j + Len(old), Len(s))

re_sub(old, new, s) == SubFrom(old, new, s, 1)

\* The characters \s matches.
IsSpace(ch) == ch \in {" ", "\t", "\n", "\r", "\f"}

----------------------------------------------------------------------------
(* fix_borders.py                                                           *)

files_to_fix ==
    << "src/components/TestCaseRowNormal.tsx",
       "src/components/TestCaseRowTeaching.tsx",
       "src/components/TableFilters.tsx" >>

\* The table with the shadow-brutal rule moved before shadow-brutal-lg.
replacements_short_first ==
    << <<"border-b-4 border-black", "border-b">>,
       <<"border-r-4 border-black", "border-r">>,
       <<"border-t-4 border-black", "border-t">>,
       <<"border-l-4 border-black", "border-l">>,
       <<"border-brutal", "border rounded-lg">>,
       <<"shadow-brutal", "shadow-sm">>,
       <<"shadow-brutal-lg", "shadow-md">>,
       <<"hover:shadow-brutal", "hover:shadow-md">>,
       <<"font-black", "font-semibold">>,
       <<"border-2 border-black", "border">> >>

replacements ==
    << <<"border-b-4 border-black", "border-b">>,
       <<"border-r-4 border-black", "border-r">>,
       <<"border-t-4 border-black", "border-t">>,
       <<"border-l-4 border-black", "border-l">>,
       <<"border-brutal", "border rounded-lg">>,
       <<"shadow-brutal-lg", "shadow-md">>,
       <<"shadow-brutal", "shadow-sm">>,
       <<"hover:shadow-brutal", "hover:shadow-md">>,
       <<"font-black", "font-semibold">>,
       <<"border-2 border-black", "border">> >>

NRules == Len(replacements)
NFiles == Len(files_to_fix)

\* The inner for loop run to its end on s, from rule k on.
RECURSIVE PassFrom(_, _)
PassFrom(s, k) ==
    IF k > NRules THEN s
    ELSE PassFrom(re_sub(replacements[k][1], replacements[k][2], s), k + 1)

TenRulePass(s) == PassFrom(s, 1)

Paths == 1..NFiles

\* What open() and the file object's calls can raise for a path, and str(e).
Faults == {"none", "open_r", "read", "open_w", "write"}

ErrText(kind) ==
    CASE kind = "missing" -> "[Errno 2] No such file or directory"
      [] kind = "open_r"  -> "[Errno 13] Permission denied"
      [] kind = "read"    -> "[Errno 5] Input/output error"
      [] kind = "open_w"  -> "[Errno 13] Permission denied"
      [] kind = "write"   -> "[Errno 28] No space left on device"

FixedLine(p) == "Fixed " \o files_to_fix[p]
ErrorLine(p, kind) ==
    "Error fixing " \o files_to_fix[p] \o ": " \o ErrText(kind)
DoneLine == "Done!"

\* except FileNotFoundError: only the missing file is caught.
CatchesOnlyMissing(kind) == kind = "missing"

\* except Exception: every error open(), read() and write() raise is an
\* OSError or a ValueError, both subclasses of Exception.
Catches(kind) == kind \in {"missing", "open_r", "read", "open_w", "write"}

\* lines 35-36: a caught error prints the error line and the for loop goes
\* on; an error the clause does not catch ends the script with a traceback.
Except(kind) ==
    IF Catches(kind)
    THEN /\ stdout' = Append(stdout, ErrorLine(filepath, kind))
         /\ filepath' = filepath + 1
         /\ pc' = "open_r"
    ELSE /\ pc' = "traceback"
         /\ UNCHANGED <<stdout, filepath>>

\* line 25: open(filepath, 'r') succeeds.
OpenReadOk ==
    /\ pc = "open_r" /\ filepath <= NFiles
    /\ fs[filepath].exists /\ fault[filepath] # "open_r"
    /\ pc' = "read"
    /\ UNCHANGED <<fs, orig, fault, filepath, content, rule, stdout>>
    /\ UNCHANGED <<pvars, tvars>>

\* line 25: open(filepath, 'r') raises; lines 35-36 handle it.
OpenReadRaise ==
    /\ pc = "open_r" /\ filepath <= NFiles
    /\ ~fs[filepath].exists \/ fault[filepath] = "open_r"
    /\ Except(IF ~fs[filepath].exists THEN "missing" ELSE "open_r")
    /\ UNCHANGED <<fs, orig, fault, content, rule>>
    /\ UNCHANGED <<pvars, tvars>>

\* line 26: content = f.read(), the file closed on leaving the with block.
ReadOk ==
    /\ pc = "read" /\ fault[filepath] # "read"
    /\ content' = fs[filepath].text
    /\ rule' = 1
    /\ pc' = "subst"
    /\ UNCHANGED <<fs, orig, fault, filepath, stdout>>
    /\ UNCHANGED <<pvars, tvars>>

\* line 26: f.read() raises; content keeps its old value.
ReadRaise ==
    /\ pc = "read" /\ fault[filepath] = "read"
    /\ Except("read")
    /\ UNCHANGED <<fs, orig, fault, content, rule>>
    /\ UNCHANGED <<pvars, tvars>>

\* lines 28-29: one turn of  for old, new in replacements.
Subst ==
    /\ pc = "subst" /\ rule <= NRules
    /\ content' = re_sub(replacements[rule][1], replacements[rule][2], content)
    /\ rule' = rule + 1
    /\ UNCHANGED <<fs, orig, fault, filepath, pc, stdout>>
    /\ UNCHANGED <<pvars, tvars>>

\* The file opened for writing inside the substitution loop.
OpenWriteInsideLoop ==
    /\ pc = "subst"
    /\ fault[filepath] # "open_w"
    /\ fs' = [fs EXCEPT ![filepath] = File("")]
    /\ pc' = "write"
    /\ UNCHANGED <<orig, fault, filepath, content, rule, stdout>>
    /\ UNCHANGED <<pvars, tvars>>

\* line 31: open(filepath, 'w') succeeds and truncates the file.
OpenWriteOk ==
    /\ pc = "subst" /\ rule > NRules
    /\ fault[filepath] # "open_w"
    /\ fs' = [fs EXCEPT ![filepath] = File("")]
    /\ pc' = "write"
    /\ UNCHANGED <<orig, fault, filepath, content, rule, stdout>>
    /\ UNCHANGED <<pvars, tvars>>

\* line 31: open(filepath, 'w') raises; the file is as it was.
OpenWriteRaise ==
    /\ pc = "subst" /\ rule > NRules
    /\ fault[filepath] = "open_w"
    /\ Except("open_w")
    /\ UNCHANGED <<fs, orig, fault, content, rule>>
    /\ UNCHANGED <<pvars, tvars>>

\* line 32: f.write(content) and the close on leaving the with block.
WriteOk ==
    /\ pc = "write" /\ fault[filepath] # "write"
    /\ fs' = [fs EXCEPT ![filepath] = File(content)]
    /\ pc' = "print"
    /\ UNCHANGED <<orig, fault, filepath, content, rule, stdout>>
    /\ UNCHANGED <<pvars, tvars>>

\* line 32: the write or the flush on close raises after n characters
\* reached the truncated file.
WriteRaise ==
    /\ pc = "write" /\ fault[filepath] = "write"
    /\ \E n \in 0..Len(content) :
           fs' = [fs EXCEPT ![filepath] = File(SubSeq(content, 1, n))]
    /\ Except("write")
    /\ UNCHANGED <<orig, fault, content, rule>>
    /\ UNCHANGED <<pvars, tvars>>

\* line 34: print(f"Fixed {filepath}"), then the next path.
PrintFixed ==
    /\ pc = "print"
    /\ stdout' = Append(stdout, FixedLine(filepath))
    /\ filepath' = filepath + 1
    /\ pc' = "open_r"
    /\ UNCHANGED <<fs, orig, fault, content, rule>>
    /\ UNCHANGED <<pvars, tvars>>

\* line 38: print("Done!") once the list is exhausted.
PrintDone ==
    /\ pc = "open_r" /\ filepath > NFiles
    /\ stdout' = Append(stdout, DoneLine)
    /\ pc' = "exit"
    /\ UNCHANGED <<fs, orig, fault, filepath, content, rule>>
    /\ UNCHANGED <<pvars, tvars>>

----------------------------------------------------------------------------
(* The ten-rule pass as a function of the text: the inner loop of           *)
(* fix_borders.py started on any content, and started again on its result.  *)

Separators == {" ", "\n"}

RECURSIVE Join(_, _, _)
\* toks[1] seps[1] toks[2] ... toks[n]
Join(toks, seps, n) ==
    IF n = 0 THEN ""
    ELSE IF n = 1 THEN toks[1]
    ELSE Join(toks, seps, n - 1) \o seps[n - 1] \o toks[n]

Patterns == {replacements[k][1] : k \in 1..NRules}

\* How many tokens of an all-patterns text are put first in a free order.
LeadLen == 2
\* How many fragments a short text is made of.
MaxTokens == 2

RECURSIVE RestInOrder(_, _)
\* The rule numbers from k on that are not in used, in table order.
RestInOrder(used, k) ==
    IF k > NRules THEN <<>>
    ELSE IF k \in used THEN RestInOrder(used, k + 1)
         ELSE <<k>> \o RestInOrder(used, k + 1)

\* The orders of the ten patterns: any LeadLen distinct ones, then the rest.
Orders ==
    {lead \o RestInOrder({lead[i] : i \in 1..LeadLen}, 1) :
        lead \in {l \in [1..LeadLen -> 1..NRules] :
                     \A i, j \in 1..LeadLen : i # j => l[i] # l[j]}}

\* Every search pattern once, each a token of its own between whitespace.
AllPatternTexts ==
    {Join([i \in 1..NRules |-> replacements[o[i]][1]],
          [i \in 1..NRules |-> w], NRules) :
        o \in Orders, w \in Separators}

Fragments ==
    {"border-b-4 border-black", "border-brutal", "shadow-brutal-lg",
     "shadow-brutal", "hover:shadow-brutal", "font-black",
     "border-2 border-black", "-brutal", "-lg", "hover:", "x"}

Joiners == {"", " "}

ShortTexts ==
    UNION {{Join(toks, seps, n) :
               toks \in [1..n -> Fragments], seps \in [1..(n - 1) -> Joiners]} :
           n \in 1..MaxTokens}

PassInputs == AllPatternTexts \cup ShortTexts

\* The script run a second time on what the first run produced.
Rerun ==
    /\ pc = "subst" /\ rule > NRules /\ run = 1
    /\ first' = content
    /\ run' = 2
    /\ rule' = 1
    /\ UNCHANGED <<fs, orig, fault, filepath, pc, content, stdout, input>>
    /\ UNCHANGED tvars

TestsIdle ==
    /\ argv = <<>> /\ tfs = <<>> /\ tpc = "idle" /\ file_path = NoText
    /\ tcontent = NoText /\ new_content = NoText /\ tstdout = <<>>
    /\ status = -1 /\ opened = <<>>

PassIdle == input = NoText /\ first = NoText /\ run = 0

InitPass ==
    /\ input \in PassInputs
    /\ content = input
    /\ first = NoText
    /\ run = 1
    /\ rule = 1
    /\ pc = "subst"
    /\ fs = [p \in Paths |-> NoFile] /\ orig = fs
    /\ fault = [p \in Paths |-> "none"]
    /\ filepath = 1
    /\ stdout = <<>>
    /\ TestsIdle

NextPass == Subst \/ Rerun

SpecPass == InitPass /\ [][NextPass]_vars

PassDone(n) == pc = "subst" /\ rule > NRules /\ run = n

----------------------------------------------------------------------------
(* fix_borders.py run once on a file system.                                *)

\* The text each listed file holds when the script starts, if it exists.
BorderTexts ==
    << "font-black border-brutal",
       "shadow-brutal-lg",
       "border-2 border-black" >>

Init ==
    /\ orig \in {o \in [Paths -> {File(BorderTexts[p]) : p \in Paths} \cup {NoFile}] :
                    \A p \in Paths : o[p].exists => o[p].text = BorderTexts[p]}
    /\ fs = orig
    /\ fault \in {f \in [Paths -> Faults] :
                     \A p \in Paths : orig[p] = NoFile => f[p] = "none"}
    /\ filepath = 1
    /\ pc = "open_r"
    /\ content = NoText
    /\ rule = 1
    /\ stdout = <<>>
    /\ PassIdle
    /\ TestsIdle

Next ==
    \/ OpenReadOk \/ OpenReadRaise
    \/ ReadOk \/ ReadRaise
    \/ Subst
    \/ OpenWriteOk \/ OpenWriteRaise
    \/ WriteOk \/ WriteRaise
    \/ PrintFixed
    \/ PrintDone

Spec == Init /\ [][Next]_vars

\* A call of open, read or write raises for path p.
Failing(p) == ~orig[p].exists \/ fault[p] # "none"

IsErrorLine(line, p) ==
    LET head == "Error fixing " \o files_to_fix[p] \o ": "
    IN  Len(line) > Len(head) /\ SubSeq(line, 1, Len(head)) = head

IsPrefix(a, b) == Len(a) <= Len(b) /\ SubSeq(b, 1, Len(a)) = a

\* What the whole pass makes of the text path p held at the start.
Transformed(p) == File(TenRulePass(orig[p].text))

\* The paths the loop has finished with.
Finished == 1..(filepath - 1)

\* C1: whichever paths fail, the script never ends in a traceback; it prints
\* one line per path in list order, the error line for a failing path and
\* the Fixed line for any other, whose file then holds the transformed text,
\* also after a failing path; it goes on to the end and prints Done! last.
C1_FailureIsolatedPerFile ==
    /\ pc # "traceback"
    /\ pc # "exit" => ENABLED Next
    /\ Len(stdout) = (filepath - 1) + (IF pc = "exit" THEN 1 ELSE 0)
    /\ \A p \in Finished :
          IF Failing(p)
          THEN IsErrorLine(stdout[p], p)
          ELSE stdout[p] = FixedLine(p) /\ fs[p] = Transformed(p)
    /\ pc = "exit" => filepath = NFiles + 1 /\ stdout[NFiles + 1] = DoneLine

C1_Witness ==
    /\ pc = "exit"
    /\ \E p, q \in Paths :
          /\ p < q
          /\ Failing(p) /\ IsErrorLine(stdout[p], p)
          /\ ~Failing(q) /\ stdout[q] = FixedLine(q)
          /\ fs[q] # orig[q]
    /\ stdout[NFiles + 1] = DoneLine

\* The file is opened for writing only with all ten rules applied in memory.
WrittenAfterAllRules ==
    (pc \in {"write", "print"})
        => rule = NRules + 1 /\ File(content) = Transformed(filepath)

\* C8 as claimed: a finished file holds its original text when the error
\* line was printed and the complete transform when Fixed was printed.
C8_OriginalOrComplete ==
    /\ WrittenAfterAllRules
    /\ \A p \in Finished :
          /\ stdout[p] = FixedLine(p) => fs[p] = Transformed(p)
          /\ IsErrorLine(stdout[p], p) => fs[p] = orig[p]

\* C8 amended: a finished file holds the complete transform when Fixed was
\* printed; when the error line was printed it holds its original text,
\* unless the write itself failed, and then it holds a prefix of the
\* transform, the file having been truncated when it was opened.
C8_OriginalCompleteOrTruncated ==
    /\ WrittenAfterAllRules
    /\ \A p \in Finished :
          /\ stdout[p] = FixedLine(p) => fs[p] = Transformed(p)
          /\ IsErrorLine(stdout[p], p) =>
                \/ fs[p] = orig[p]
                \/ /\ fault[p] = "write"
                   /\ fs[p].exists
                   /\ IsPrefix(fs[p].text, Transformed(p).text)

C8_Witness ==
    \E p, q \in Finished :
        /\ stdout[p] = FixedLine(p) /\ fs[p] # orig[p]
        /\ IsErrorLine(stdout[q], q) /\ fault[q] = "write"
        /\ fs[q] # orig[q] /\ fs[q] # Transformed(q) /\ fs[q] # File("")

----------------------------------------------------------------------------
(* Properties of the ten-rule pass.                                         *)

\* content after the first k rules of the pass were applied to s.
RECURSIVE RulesThrough(_, _)
RulesThrough(s, k) ==
    IF k = 0 THEN s
    ELSE re_sub(replacements[k][1], replacements[k][2], RulesThrough(s, k - 1))

\* Position i of s is outside s or holds whitespace.
Delimits(s, i) == i < 1 \/ i > Len(s) \/ IsSpace(SubSeq(s, i, i))

\* Every occurrence a rule of the pass replaces, in the text that rule sees,
\* stands between whitespace or the ends of the text.
ReplacedDelimited(s) ==
    \A k \in 1..NRules :
        LET c == RulesThrough(s, k - 1)
            old == replacements[k][1]
        IN  \A j \in MatchStarts(old, c, 1) :
                Delimits(c, j - 1) /\ Delimits(c, j + Len(old))

\* C2: a text containing hover:shadow-brutal comes out of the pass with
\* hover:shadow-md there and never with hover:shadow-sm.
C2_HoverBecomesMd ==
    (PassDone(1) /\ Contains(input, "hover:shadow-brutal"))
        => /\ Contains(content, "hover:shadow-md")
           /\ ~Contains(content, "hover:shadow-sm")

\* C3: every shadow-brutal-lg of the input comes out of the pass as
\* shadow-md, and the pass never makes a shadow-sm-lg.
C3_LgBecomesMd ==
    PassDone(1)
        => /\ Count(content, "shadow-md")
                = Count(input, "shadow-md") + Count(input, "shadow-brutal-lg")
           /\ ~Contains(content, "shadow-brutal-lg")
           /\ ~Contains(input, "shadow-sm-lg") => ~Contains(content, "shadow-sm-lg")

C3_Witness ==
    /\ PassDone(1)
    /\ Contains(input, "shadow-brutal-lg")
    /\ Contains(content, "shadow-md")
    /\ ~Contains(input, "shadow-md")

\* C7: a text of the ten search patterns, each once as a token between
\* whitespace, comes out of the pass with no search pattern left in it.
C7_NoPatternLeft ==
    (PassDone(1) /\ input \in AllPatternTexts)
        => \A old \in Patterns : ~Contains(content, old)

C7_Witness ==
    /\ PassDone(1)
    /\ input \in AllPatternTexts
    /\ \A old \in Patterns : Contains(input, old)
    /\ content # input

\* C9 as claimed: the pass applied to its own output returns it unchanged,
\* whatever the input.
C9_RerunIsNoOp == PassDone(2) => content = first

\* C9 amended: the pass applied to its own output returns it unchanged when
\* every occurrence the first pass replaced stood between whitespace or the
\* ends of the text.
C9_RerunIsNoOpWhenDelimited ==
    (PassDone(2) /\ ReplacedDelimited(input)) => content = first

C9_Witness ==
    /\ PassDone(2)
    /\ ReplacedDelimited(input)
    /\ first # input
    /\ content = first

----------------------------------------------------------------------------
(* fix_tests.py                                                             *)

\* The character at position i of s; the empty text outside s.
Ch(s, i) == IF i >= 1 /\ i <= Len(s) THEN SubSeq(s, i, i) ELSE ""

\* s[a..b], cut to the positions s has.
Slice(s, a, b) ==
    SubSeq(s, IF a < 1 THEN 1 ELSE a, IF b > Len(s) THEN Len(s) ELSE b)

\* [a-zA-Z]
IsLetter(ch) ==
    ch \in {"a", "b", "c", "d", "e", "f", "g", "h", "i", "j", "k", "l", "m",
            "n", "o", "p", "q", "r", "s", "t", "u", "v", "w", "x", "y", "z",
            "A", "B", "C", "D", "E", "F", "G", "H", "I", "J", "K", "L", "M",
            "N", "O", "P", "Q", "R", "S", "T", "U", "V", "W", "X", "Y", "Z"}

Sentinel == "codeChange:"
Guarded == "organisationalPressure"
Inserted == "organisationalPressure: 1,"

\* The pattern with the negative lookahead left out.
NoLookahead(s, m) == TRUE

\* (?!o): the lookahead looking at the first letter only.
LookaheadFirstLetter(s, m) == Ch(s, m) # "o"

\* (?!organisationalPressure) at position m of s.
Lookahead(s, m) == ~MatchesAt(Guarded, s, m)

\* codeChange:\s*[^,\n]+,  matched from i: the positions k of the closing
\* comma, for every way of sharing s[j..k-1] between \s* and [^,\n]+.
GroupOneEnds(s, i) ==
    LET j == i + Len(Sentinel)
    IN  {k \in j..Len(s) :
            /\ Ch(s, k) = ","
            /\ \E a \in j..(k - 1) :
                  /\ \A x \in j..(a - 1) : IsSpace(Ch(s, x))
                  /\ \A x \in a..(k - 1) : Ch(s, x) \notin {",", "\n"}}

\* (\s*)((?!organisationalPressure)[a-zA-Z])  matched after the comma at k:
\* the positions m of the letter.
GroupThreeAt(s, k) ==
    {m \in (k + 1)..Len(s) :
        /\ IsLetter(Ch(s, m))
        /\ \A x \in (k + 1)..(m - 1) : IsSpace(Ch(s, x))
        /\ Lookahead(s, m)}

\* The ways the pattern of line 8 matches s starting at i, each as
\* <<k, m>>: group 1 is s[i..k], k the comma; group 2 the whitespace
\* s[k+1..m-1]; group 3 the letter s[m].
MatchesFrom(s, i) ==
    IF ~MatchesAt(Sentinel, s, i) THEN {}
    ELSE UNION {{<<k, m>> : m \in GroupThreeAt(s, k)} : k \in GroupOneEnds(s, i)}

\* Where the scan of re.sub finds the pattern next, at or after i; 0 if
\* nowhere.
NextFieldMatch(s, i) ==
    LET at == {j \in i..Len(s) : MatchesFrom(s, j) # {}}
    IN  IF at = {} THEN 0 ELSE CHOOSE j \in at : \A x \in at : j <= x

\* The matches re.sub replaces in s scanning from i, each as <<j, k, m>>.
RECURSIVE FieldMatches(_, _)
FieldMatches(s, i) ==
    LET j == NextFieldMatch(s, i)
    IN  IF j = 0 THEN {}
        ELSE LET km == CHOOSE c \in MatchesFrom(s, j) : TRUE
             IN  {<<j, km[1], km[2]>>} \cup FieldMatches(s, km[2] + 1)

\* re.sub(pattern, r'\1\2organisationalPressure: 1,\2\3', s) from i on.
RECURSIVE InsertFrom(_, _)
InsertFrom(s, i) ==
    LET j == NextFieldMatch(s, i)
    IN  IF j = 0 THEN SubSeq(s, i, Len(s))
        ELSE LET km == CHOOSE c \in MatchesFrom(s, j) : TRUE
                 g1 == SubSeq(s, j, km[1])
                 g2 == SubSeq(s, km[1] + 1, km[2] - 1)
                 g3 == Ch(s, km[2])
             IN  SubSeq(s, i, j - 1) \o g1 \o g2 \o Inserted \o g2 \o g3
                     \o InsertFrom(s, km[2] + 1)

add_org_pressure(s) == InsertFrom(s, 1)

\* The file given on the command line.
TestFile == "cases.test.ts"

\* line 13: file_path = sys.argv[1]
ArgvOk ==
    /\ tpc = "argv" /\ Len(argv) >= 2
    /\ file_path' = argv[2]
    /\ tpc' = "read"
    /\ UNCHANGED <<argv, tfs, tcontent, new_content, tstdout, status, opened>>
    /\ UNCHANGED <<bvars, pvars>>

\* A path used when the command line gives none.
ArgvDefaultsPath ==
    /\ tpc = "argv" /\ Len(argv) < 2
    /\ file_path' = TestFile
    /\ tpc' = "read"
    /\ UNCHANGED <<argv, tfs, tcontent, new_content, tstdout, status, opened>>
    /\ UNCHANGED <<bvars, pvars>>

\* line 13: sys.argv[1] raises IndexError; nothing catches it and the
\* interpreter exits with status 1.
ArgvRaise ==
    /\ tpc = "argv" /\ Len(argv) < 2
    /\ status' = 1
    /\ tpc' = "exit"
    /\ UNCHANGED <<argv, tfs, file_path, tcontent, new_content, tstdout, opened>>
    /\ UNCHANGED <<bvars, pvars>>

\* lines 14-15: the file is opened and read whole.
TReadOk ==
    /\ tpc = "read" /\ tfs[file_path].exists
    /\ opened' = Append(opened, <<file_path, "r">>)
    /\ tcontent' = tfs[file_path].text
    /\ tpc' = "call"
    /\ UNCHANGED <<argv, tfs, file_path, new_content, tstdout, status>>
    /\ UNCHANGED <<bvars, pvars>>

\* line 14: open raises FileNotFoundError; nothing catches it.
TReadRaise ==
    /\ tpc = "read" /\ ~tfs[file_path].exists
    /\ opened' = Append(opened, <<file_path, "r">>)
    /\ status' = 1
    /\ tpc' = "exit"
    /\ UNCHANGED <<argv, tfs, file_path, tcontent, new_content, tstdout>>
    /\ UNCHANGED <<bvars, pvars>>

\* line 17: new_content = add_org_pressure(content)
Call ==
    /\ tpc = "call"
    /\ new_content' = add_org_pressure(tcontent)
    /\ tpc' = "write"
    /\ UNCHANGED <<argv, tfs, file_path, tcontent, tstdout, status, opened>>
    /\ UNCHANGED <<bvars, pvars>>

\* lines 19-20: the file is opened for writing and new_content written.
TWrite ==
    /\ tpc = "write"
    /\ opened' = Append(opened, <<file_path, "w">>)
    /\ tfs' = [tfs EXCEPT ![file_path] = File(new_content)]
    /\ tpc' = "print"
    /\ UNCHANGED <<argv, file_path, tcontent, new_content, tstdout, status>>
    /\ UNCHANGED <<bvars, pvars>>

\* line 22: print(f"Fixed {file_path}"); the script ends with status 0.
TPrint ==
    /\ tpc = "print"
    /\ tstdout' = Append(tstdout, "Fixed " \o file_path)
    /\ status' = 0
    /\ tpc' = "exit"
    /\ UNCHANGED <<argv, tfs, file_path, tcontent, new_content, opened>>
    /\ UNCHANGED <<bvars, pvars>>

\* The script started a second time with the same command line.
Again ==
    /\ tpc = "exit" /\ status = 0 /\ run = 1
    /\ run' = 2
    /\ first' = tfs[file_path].text
    /\ tpc' = "argv"
    /\ file_path' = NoText /\ tcontent' = NoText /\ new_content' = NoText
    /\ tstdout' = <<>> /\ status' = -1 /\ opened' = <<>>
    /\ UNCHANGED <<argv, tfs, input>>
    /\ UNCHANGED bvars

\* How many fields a text is made of.
MaxFields == 3

Fields ==
    {"codeChange: \"refactor\",", "organisationalPressure: 1,",
     "severity: 2", "other: 3,", "\"k\": 2,"}

Gaps == {"", " ", "\n  "}

TestTexts ==
    UNION {{Join(toks, seps, n) :
               toks \in [1..n -> Fields], seps \in [1..(n - 1) -> Gaps]} :
           n \in 1..MaxFields}

InitTests ==
    /\ argv \in {<<"fix_tests.py">>, <<"fix_tests.py", TestFile>>}
    /\ tfs \in [{TestFile} -> {File(t) : t \in TestTexts} \cup {NoFile}]
    /\ tpc = "argv"
    /\ file_path = NoText /\ tcontent = NoText /\ new_content = NoText
    /\ tstdout = <<>> /\ status = -1 /\ opened = <<>>
    /\ input = tfs[TestFile].text /\ first = NoText /\ run = 1
    /\ fs = [p \in Paths |-> NoFile] /\ orig = tfs
    /\ fault = [p \in Paths |-> "none"]
    /\ filepath = 1 /\ pc = "idle" /\ content = NoText /\ rule = 1
    /\ stdout = <<>>

NextTests ==
    \/ ArgvOk \/ ArgvRaise
    \/ TReadOk \/ TReadRaise
    \/ Call
    \/ TWrite
    \/ TPrint
    \/ Again

SpecTests == InitTests /\ [][NextTests]_vars

----------------------------------------------------------------------------
(* Properties of fix_tests.py                                               *)

\* The first position at or after i of s that holds ch; 0 if none.
FirstOf(s, ch, i) ==
    LET at == {x \in i..Len(s) : Ch(s, x) = ch}
    IN  IF at = {} THEN 0 ELSE CHOOSE x \in at : \A y \in at : x <= y

\* The first position at or after i of s that holds no whitespace; 0 if none.
FirstNonSpace(s, i) ==
    LET at == {x \in i..Len(s) : ~IsSpace(Ch(s, x))}
    IN  IF at = {} THEN 0 ELSE CHOOSE x \in at : \A y \in at : x <= y

\* The comma closing a field  codeChange: <value>,  that starts at i of s,
\* <value> with no comma and no newline in it; 0 if there is no such field.
FieldComma(s, i) ==
    LET j == i + Len(Sentinel)
        k == FirstOf(s, ",", j)
    IN  IF /\ MatchesAt(Sentinel, s, i)
           /\ k > j
           /\ \A x \in j..(k - 1) : Ch(s, x) # "\n"
        THEN k ELSE 0

\* What follows the field that starts at i: the first position after its
\* comma that holds no whitespace; 0 if the field or such a position is not
\* there.
FieldFollower(s, i) ==
    IF FieldComma(s, i) = 0 THEN 0 ELSE FirstNonSpace(s, FieldComma(s, i) + 1)

RECURSIVE Widths(_)
\* The characters the matches of S put into the text.
Widths(S) ==
    IF S = {} THEN 0
    ELSE LET c == CHOOSE x \in S : TRUE
         IN  Len(Inserted) + (c[3] - c[2] - 1) + Widths(S \ {c})

\* By how much the pass moves position x of s to the right.
Shift(s, x) == Widths({c \in FieldMatches(s, 1) : c[3] <= x})

Example == "codeChange: \"refactor\", severity: 2"
ExampleFixed == "codeChange: \"refactor\", organisationalPressure: 1, severity: 2"

C5_ExistingFieldNotDuplicated ==
    (tpc = "write" /\ run = 1) =>
        LET t == tcontent
        IN  /\ \A i \in Occurrences(Sentinel, t) :
                  LET m == FieldFollower(t, i)
                      e == m + Len(Guarded) - 1
                  IN  (m # 0 /\ MatchesAt(Guarded, t, m)) =>
                          /\ Shift(t, e) = Shift(t, i)
                          /\ Slice(new_content, i + Shift(t, i), e + Shift(t, i))
                                = SubSeq(t, i, e)
            /\ t = ExampleFixed => new_content = ExampleFixed

C5_Witness ==
    /\ tpc = "write" /\ run = 1
    /\ tcontent = "other: 3, codeChange: \"refactor\",\n  organisationalPressure: 1,"
    /\ new_content =
          "other: 3, codeChange: \"refactor\",\n  organisationalPressure: 1,"

\* C6: started with no argument the script ends with a status other than 0,
\* having opened no file, changed no file and printed nothing.
C6_NoArgumentNoMutation ==
    Len(argv) < 2 =>
        /\ opened = <<>>
        /\ tfs = orig
        /\ tstdout = <<>>
        /\ tpc = "exit" => status # 0
        /\ tpc # "exit" => ENABLED NextTests

C6_Witness ==
    /\ Len(argv) < 2 /\ tpc = "exit" /\ status = 1
    /\ tfs[TestFile].exists /\ tfs = orig

\* Some text of s that group 1 of the pattern matches, codeChange: and a
\* value up to its comma, is followed, after whitespace, by another
\* codeChange:
SentinelsAdjacent(s) ==
    \E i \in Occurrences(Sentinel, s) :
        \E k \in GroupOneEnds(s, i) :
            MatchesAt(Sentinel, s, FirstNonSpace(s, k + 1))

RanTwice == tpc = "exit" /\ status = 0 /\ run = 2

\* C10 as claimed: a second run leaves every text as the first run left it.
C10_SecondRunIsNoOp == RanTwice => tfs[file_path].text = first

\* C10 amended: a second run leaves the text as the first run left it when
\* no codeChange field of the input is followed, after whitespace, by
\* another codeChange field.
C10_SecondRunIsNoOpUnlessAdjacent ==
    (RanTwice /\ ~SentinelsAdjacent(input)) => tfs[file_path].text = first

C10_Witness ==
    /\ RanTwice
    /\ ~SentinelsAdjacent(input)
    /\ first # input
    /\ tfs[file_path].text = first

====
